---- MODULE Spec2Model ----
(***************************************************************************)
(* A model of the rust-ipfs-api client library (src/src/object.rs,          *)
(* api.rs, name.rs) together with the IPFS daemon it talks to.             *)
(*                                                                         *)
(* Strings that the code slices (paths, hashes, link names) are sequences  *)
(* of one-character strings; byte vectors are sequences of 0..255.         *)
(* Error messages, which the code only compares, are TLA+ strings.         *)
(***************************************************************************)
EXTENDS Naturals, Sequences, FiniteSets, TLC

\* ------------------------------------------------------------------ bounds

\* Largest number of nodes Object::commit leaves in the daemon's store (the
\* four foreign nodes of Init included).
MaxStore == 5
\* Largest number of links of a draft.
MaxLinks == 2
\* Largest number of links of an ObjectEditor of the older design.
MaxEditorLinks == 2

\* ------------------------------------------------------------ base58 codec

\* The bitcoin alphabet of the rust-base58 crate.
BTC_ALPHA ==
  << "1","2","3","4","5","6","7","8","9",
     "A","B","C","D","E","F","G","H","J","K","L","M","N","P","Q","R","S","T",
     "U","V","W","X","Y","Z",
     "a","b","c","d","e","f","g","h","i","j","k","m","n","o","p","q","r","s",
     "t","u","v","w","x","y","z" >>

Radix == Len(BTC_ALPHA)

IsB58Char(c) == \E i \in 1..Radix : BTC_ALPHA[i] = c

\* Value (0..57) of a character of the alphabet.
B58Value(c) == (CHOOSE i \in 1..Radix : BTC_ALPHA[i] = c) - 1

\* BigUint::from_bytes_be
RECURSIVE FromBytesBe(_)
FromBytesBe(bs) ==
  IF bs = << >> THEN 0
  ELSE FromBytesBe(SubSeq(bs, 1, Len(bs) - 1)) * 256 + bs[Len(bs)]

\* BigUint::to_bytes_be of a positive number
RECURSIVE ToBytesBe(_)
ToBytesBe(x) ==
  IF x = 0 THEN << >> ELSE Append(ToBytesBe(x \div 256), x % 256)

\* The base-58 digits of x, most significant first (empty for 0).
RECURSIVE B58Digits(_)
B58Digits(x) ==
  IF x = 0 THEN << >> ELSE Append(B58Digits(x \div Radix), BTC_ALPHA[(x % Radix) + 1])

\* Number of leading elements of s equal to c (iter().take_while(..)).
RECURSIVE LeadingCount(_, _)
LeadingCount(s, c) ==
  IF s # << >> /\ s[1] = c THEN 1 + LeadingCount(Tail(s), c) ELSE 0

\* [c, c, ..., c] of length n
Repeat(c, n) == [i \in 1..n |-> c]

\* <[u8] as ToBase58>::to_base58
ToBase58(bs) ==
  Repeat(BTC_ALPHA[1], LeadingCount(bs, 0)) \o B58Digits(FromBytesBe(bs))

\* The number a base58 string denotes.
RECURSIVE B58Number(_)
B58Number(s) ==
  IF s = << >> THEN 0
  ELSE B58Number(SubSeq(s, 1, Len(s) - 1)) * Radix + B58Value(s[Len(s)])

\* <str as FromBase58>::from_base58: Err on a byte outside the alphabet.
FromBase58(s) ==
  IF \E i \in 1..Len(s) : ~IsB58Char(s[i])
  THEN [ok |-> FALSE, bytes |-> << >>]
  ELSE [ok |-> TRUE,
        bytes |-> Repeat(0, LeadingCount(s, BTC_ALPHA[1])) \o ToBytesBe(B58Number(s))]

\* ---------------------------------------------------------- string helpers

Slash == "/"

\* str::rfind(c): index of the last c, 0 for None.
Rfind(s, c) ==
  IF \E i \in 1..Len(s) : s[i] = c
  THEN CHOOSE i \in 1..Len(s) : s[i] = c /\ \A j \in (i + 1)..Len(s) : s[j] # c
  ELSE 0

\* str::find(c): index of the first c, 0 for None.
Find(s, c) ==
  IF \E i \in 1..Len(s) : s[i] = c
  THEN CHOOSE i \in 1..Len(s) : s[i] = c /\ \A j \in 1..(i - 1) : s[j] # c
  ELSE 0

StartsWith(s, p) == Len(s) >= Len(p) /\ SubSeq(s, 1, Len(p)) = p

\* str::splitn(n, c): at most n items, the last one holding the remainder.
RECURSIVE SplitN(_, _, _)
SplitN(n, s, c) ==
  IF n = 0 THEN << >>
  ELSE IF n = 1 \/ Find(s, c) = 0 THEN << s >>
  ELSE << SubSeq(s, 1, Find(s, c) - 1) >>
         \o SplitN(n - 1, SubSeq(s, Find(s, c) + 1, Len(s)), c)

\* str::split(c): every item.
RECURSIVE Split(_, _)
Split(s, c) ==
  IF Find(s, c) = 0 THEN << s >>
  ELSE << SubSeq(s, 1, Find(s, c) - 1) >> \o Split(SubSeq(s, Find(s, c) + 1, Len(s)), c)

\* -------------------------------------------------------------- data types

None == << >>
Some(x) == << x >>

\* Reference { size, hash } (object.rs 327-330)
Reference(size, hash) == [size |-> size, hash |-> hash]

\* Link { name, object } (object.rs 243-250)
Link(name, object) == [name |-> name, object |-> object]

\* Object { data, links } (object.rs 17-23)
Object(data, links) == [data |-> data, links |-> links]

\* CommittedObject { reference, object } (object.rs 29-32)
CommittedObject(reference, object) == [reference |-> reference, object |-> object]

\* io::Error::new(kind, message)
IoError(kind, msg) == [kind |-> kind, msg |-> msg]

OkUnit == [tag |-> "Ok"]
Fail(e) == [tag |-> "Err", error |-> e]
Panic == [tag |-> "Panic"]

NOT_PINNED == "not pinned"
INVALID_REF == "invalid ipfs ref path"

BoolToStr(b) == IF b THEN "true" ELSE "false"

\* ---------------------------------------------------------------------- u64
\* A u64 is four 16-bit limbs, most significant first.

LimbBase == 65536

\* A length or a small literal as u64 (`as u64`), for n below 2^32.
U64(n) == << 0, 0, n \div LimbBase, n % LimbBase >>

\* u64::MAX
U64Max == << LimbBase - 1, LimbBase - 1, LimbBase - 1, LimbBase - 1 >>

\* a + b in full: the low 64 bits and the carry out of them.
AddWide(a, b) ==
  LET s4 == a[4] + b[4]
      s3 == a[3] + b[3] + (s4 \div LimbBase)
      s2 == a[2] + b[2] + (s3 \div LimbBase)
      s1 == a[1] + b[1] + (s2 \div LimbBase)
  IN [carry |-> s1 \div LimbBase,
      val |-> << s1 % LimbBase, s2 % LimbBase, s3 % LimbBase, s4 % LimbBase >>]

\* a + b on u64: with overflow checks (a build with debug assertions) an
\* overflow panics "attempt to add with overflow", without them it wraps.
AddU64(a, b, debug) ==
  IF debug /\ AddWide(a, b).carry = 1 THEN Panic ELSE [tag |-> "Ok", val |-> AddWide(a, b).val]

\* links.iter().fold(0, |c, l| c + l.object.size())
RECURSIVE FoldSizes(_, _)
FoldSizes(links, debug) ==
  IF links = << >> THEN [tag |-> "Ok", val |-> U64(0)]
  ELSE LET c == FoldSizes(SubSeq(links, 1, Len(links) - 1), debug)
       IN IF c = Panic THEN Panic
          ELSE AddU64(c.val, links[Len(links)].object.size, debug)

\* Object::size
ObjectSize(o, debug) ==
  LET f == FoldSizes(o.links, debug)
  IN IF f = Panic THEN Panic ELSE AddU64(U64(Len(o.data)), f.val, debug)

\* <Reference as Display>::fmt
IpfsPrefix == << "/", "i", "p", "f", "s", "/" >>
Display(r) == IpfsPrefix \o r.hash

\* ---------------------------------------------------------------- the daemon
\* The IPFS daemon behind the HTTP API: a content-addressed store of PBNode
\* messages and a set of pinned nodes.  store[i] is the i-th node stored; its
\* multihash is Multihash(i), so equal content has equal hash and different
\* content has different hashes.

\* PBLink { Hash, Name, Tsize } and PBNode { Links, Data }
PBLink(name, hash, tsize) == [Name |-> name, Hash |-> hash, Tsize |-> tsize]
PBNode(links, data) == [Links |-> links, Data |-> data]

\* The raw multihash of the i-th stored node: function code 0x12 and a digest.
Multihash(i) == << 18, i >>

\* The hash as the daemon prints it.
HashString(i) == ToBase58(Multihash(i))

\* Content that other peers published before the client starts: a leaf, a
\* root linking to it under the name "l" with the Tsize the publishing
\* daemon computed (it counts the encoded block, not only the data bytes),
\* and two nodes whose publisher wrote the largest Tsize there is, one
\* without data and one with a byte of data on top.
ForeignLeaf == PBNode(<< >>, << 116 >>)
ForeignRoot == PBNode(<< PBLink(<< "l" >>, Multihash(1), U64(3)) >>, << >>)
ForeignHuge == PBNode(<< PBLink(<< "l" >>, Multihash(1), U64Max) >>, << >>)
ForeignOver == PBNode(<< PBLink(<< "l" >>, Multihash(1), U64Max) >>, << 116 >>)
ForeignStore == << ForeignLeaf, ForeignRoot, ForeignHuge, ForeignOver >>
ForeignRootHash == ToBase58(Multihash(2))

VARIABLES
  store,   \* the daemon's nodes, in the order they were stored
  pins,    \* indices of the pinned nodes
  draft,   \* the caller's draft Object: None or Some(Object)
  held,    \* the caller's CommittedObject: None or Some(CommittedObject)
  origin,  \* which call produced the held object: "commit", "get" or "none"
  call,    \* the last library call: its name, arguments and result
  wire,    \* the HTTP exchanges of the last call: << [req, reply], ... >>
  ipns,    \* the node published under this peer's name, 0 if there is none
  IPFS_BASE,  \* the process-wide endpoint, the Url inside the RwLock
  rwlock,  \* the RwLock around it: free, or held by a set_api_endpoint
  debug_assertions  \* whether the build has debug assertions and overflow checks

vars ==
  << store, pins, draft, held, origin, call, wire, ipns, IPFS_BASE, rwlock,
     debug_assertions >>

\* What the object model leaves alone: the published name, the endpoint and
\* the build.
env == << ipns, IPFS_BASE, rwlock, debug_assertions >>

\* Index of the stored node with this multihash, 0 if there is none.
IndexOfHash(bytes) ==
  IF \E i \in 1..Len(store) : Multihash(i) = bytes
  THEN CHOOSE i \in 1..Len(store) : Multihash(i) = bytes
  ELSE 0

\* Index under which object/put stores (or finds) a node.
PutIndex(node) ==
  IF \E i \in 1..Len(store) : store[i] = node
  THEN CHOOSE i \in 1..Len(store) : store[i] = node
  ELSE Len(store) + 1

\* The path segments the daemon walks: an optional /ipfs/ prefix is dropped,
\* empty segments are skipped.
DaemonSegments(path) ==
  LET p == IF StartsWith(path, IpfsPrefix)
           THEN SubSeq(path, Len(IpfsPrefix) + 1, Len(path)) ELSE path
      all == Split(p, Slash)
  IN SelectSeq(all, LAMBDA x : x # << >>)

\* Index of the node the first segment names, 0 if it is no stored hash.
DaemonRoot(segs) ==
  IF segs = << >> \/ ~FromBase58(segs[1]).ok THEN 0
  ELSE IndexOfHash(FromBase58(segs[1]).bytes)

\* Follow link names from node i; 0 when a name or its target is missing.
RECURSIVE DaemonWalk(_, _)
DaemonWalk(i, names) ==
  IF i = 0 \/ names = << >> THEN i
  ELSE LET ls == store[i].Links
           hit == { k \in 1..Len(ls) : ls[k].Name = names[1] }
       IN IF hit = {} THEN 0
          ELSE LET k == CHOOSE k \in hit : \A m \in hit : k <= m
               IN DaemonWalk(IndexOfHash(ls[k].Hash), Tail(names))

\* "/" joined in front of every segment
RECURSIVE JoinTail(_)
JoinTail(segs) ==
  IF segs = << >> THEN << >> ELSE << Slash >> \o segs[1] \o JoinTail(Tail(segs))

\* Replies of the HTTP layer that are no answer of a healthy daemon: the
\* connection fails, the body does not decode, the daemon reports a failure.
IoFault == [t |-> "io"]
GarbledSuccess == [t |-> "success", garbled |-> TRUE]
GarbledFailure == [t |-> "failure", garbled |-> TRUE]
Failure(m) == [t |-> "failure", garbled |-> FALSE, message |-> m]
Busy == Failure("context deadline exceeded")
Faults == { IoFault, GarbledSuccess, Busy }

\* The daemon's error for a path it cannot walk.
DaemonPathError(path) ==
  LET segs == DaemonSegments(path)
  IN IF segs = << >> \/ ~FromBase58(segs[1]).ok THEN Failure(INVALID_REF)
     ELSE IF DaemonRoot(segs) = 0 THEN Failure("merkledag: not found")
     ELSE Failure("no link by that name")

\* GET resolve: the daemon answers /ipfs/<hash>, or /ipfs/<hash>/<tail> when
\* it stops before the last segments.
DaemonResolve(path) ==
  LET segs == DaemonSegments(path)
      names == Tail(segs)
  IN IF DaemonWalk(DaemonRoot(segs), IF segs = << >> THEN << >> ELSE names) = 0
     THEN { DaemonPathError(path) }
     ELSE { [t |-> "success", garbled |-> FALSE,
             path |-> IpfsPrefix
                      \o HashString(DaemonWalk(DaemonRoot(segs), SubSeq(names, 1, k)))
                      \o JoinTail(SubSeq(names, k + 1, Len(names)))]
            : k \in 0..Len(names) }

\* GET object/get: the node at the end of the path.
DaemonObjectGet(path) ==
  LET segs == DaemonSegments(path)
      i == DaemonWalk(DaemonRoot(segs), IF segs = << >> THEN << >> ELSE Tail(segs))
  IN IF i = 0 THEN { DaemonPathError(path) }
     ELSE { [t |-> "success", garbled |-> FALSE, node |-> store[i]] }

\* POST object/put: the hash of the stored node.
DaemonObjectPut(node) ==
  { [t |-> "success", garbled |-> FALSE, hash |-> HashString(PutIndex(node))] }

\* POST pin/add
DaemonPinAdd(arg) ==
  IF DaemonWalk(DaemonRoot(DaemonSegments(arg)), << >>) = 0
  THEN { DaemonPathError(arg) }
  ELSE { [t |-> "success", garbled |-> FALSE] }

\* POST pin/rm
DaemonPinRm(arg) ==
  LET i == DaemonWalk(DaemonRoot(DaemonSegments(arg)), << >>)
  IN IF ~FromBase58(arg).ok THEN { Failure(INVALID_REF) }
     ELSE IF i \in pins THEN { [t |-> "success", garbled |-> FALSE] }
     ELSE { Failure(NOT_PINNED) }

\* This peer's id and the path of its name.
PeerId == ToBase58(<< 18, 0 >>)
IpnsPrefix == << "/", "i", "p", "n", "s", "/" >>
IpnsPath == IpnsPrefix \o PeerId

\* Index of the node a path names: this peer's /ipns/ name stands for the
\* node published under it, any other path is walked from its hash.
DaemonTarget(path) ==
  IF path = IpnsPath THEN ipns
  ELSE LET segs == DaemonSegments(path)
       IN DaemonWalk(DaemonRoot(segs), IF segs = << >> THEN << >> ELSE Tail(segs))

RECURSIVE SumTsize(_)
SumTsize(links) ==
  IF links = << >> THEN U64(0) ELSE AddWide(links[1].Tsize, SumTsize(Tail(links))).val

\* GET object/stat: the hash of the node, its number of links, the size of
\* its data and its cumulative size, the data and the Tsize of every link.
DaemonObjectStat(path) ==
  LET i == DaemonTarget(path)
  IN IF i = 0
     THEN { IF path = IpnsPath THEN Failure("could not resolve name")
            ELSE DaemonPathError(path) }
     ELSE { [t |-> "success", garbled |-> FALSE,
             stat |-> [Hash |-> HashString(i),
                       NumLinks |-> Len(store[i].Links),
                       DataSize |-> Len(store[i].Data),
                       CumulativeSize |->
                         AddWide(U64(Len(store[i].Data)), SumTsize(store[i].Links)).val]] }

\* POST name/publish: binds this peer's name to the node the argument names.
DaemonNamePublish(arg) ==
  IF DaemonWalk(DaemonRoot(DaemonSegments(arg)), << >>) = 0
  THEN { DaemonPathError(arg) }
  ELSE { [t |-> "success", garbled |-> FALSE, name |-> PeerId, value |-> arg] }

\* ------------------------------------------------------------ transport facade

\* Encoding::ENCODING of the three codecs
EncodingHint(codec) ==
  CASE codec = "Json" -> Some("json")
    [] codec = "Protobuf" -> Some("protobuf")
    [] codec = "Ignore" -> None

\* A response whose body breaks off: reading it raises an io::Error of the
\* given kind.
ReadError(t, kind) == [t |-> t, garbled |-> FALSE, readerr |-> kind]
BodyBreaks(reply) == "readerr" \in DOMAIN reply

\* Encoding::parse: Ignore drops the body; Json and Protobuf fail with
\* InvalidData on a body that does not decode.  An io::Error raised while
\* the body is read is wrapped into InvalidData by Json (both arms of its
\* match) and returned as it is by Protobuf.
Parse(codec, reply) ==
  IF codec = "Ignore" THEN OkUnit
  ELSE IF BodyBreaks(reply)
  THEN IF codec = "Json" THEN Fail(IoError("InvalidData", reply.readerr))
       ELSE Fail(IoError(reply.readerr, reply.readerr))
  ELSE IF reply.garbled THEN Fail(IoError("InvalidData", "decode error"))
  ELSE [tag |-> "Ok", body |-> reply]

HandleErrorByCodec(codec, reply) == Parse(codec, reply)

\* handle_error: decode by the codec on success, as IpfsError otherwise.
HandleError(codec, reply) ==
  IF reply.t = "success" THEN Parse(codec, reply)
  ELSE IF Parse("Json", reply).tag = "Err" THEN Parse("Json", reply)
  ELSE Fail(IoError("Other", reply.message))

\* A hyper error that is no io::Error: a malformed status line or header.
HyperFault == [t |-> "hyper"]

\* api::get, api::post, api::post_data: a transport failure is returned as
\* it is, any other hyper error as InvalidData, a response goes through
\* handle_error.
ApiCall(codec, reply) ==
  IF reply.t = "io" THEN Fail(IoError("ConnectionRefused", "connection refused"))
  ELSE IF reply.t = "hyper" THEN Fail(IoError("InvalidData", "invalid response"))
  ELSE HandleError(codec, reply)

\* The initial value of IPFS_BASE: http://127.0.0.1:5001/api/v0/
DefaultUrl == [host |-> "127.0.0.1", port |-> 5001]

\* The RwLock with no writer.
Unlocked == [w |-> "none"]

CanReadAlways == TRUE

\* IPFS_BASE.read() returns only while no writer holds the lock.
CanRead == rwlock = Unlocked

\* The endpoint in effect: the last one written completely.
InEffect == IF rwlock = Unlocked THEN IPFS_BASE ELSE rwlock.old

\* make_url: the request as it leaves the client, the method and the query
\* joined to the endpoint read from IPFS_BASE.
Request(verb, endpoint, codec, args) ==
  [base |-> IPFS_BASE, verb |-> verb, endpoint |-> endpoint,
   encoding |-> EncodingHint(codec), args |-> args]

Exchange(req, reply) == [req |-> req, reply |-> reply]

\* ------------------------------------------------------------------- commit

\* The PBLink of one link; ok is FALSE when from_base58().unwrap() panics.
LinkToPB(l) ==
  [ok |-> FromBase58(l.object.hash).ok,
   link |-> PBLink(l.name, FromBase58(l.object.hash).bytes, l.object.size)]

PBNodeOfReversed(d) ==
  PBNode([i \in 1..Len(d.links) |-> LinkToPB(d.links[Len(d.links) + 1 - i]).link], d.data)

\* Object::commit, lines 143-155: the PBNode built from the draft.
PBNodeOf(d) ==
  PBNode([i \in 1..Len(d.links) |-> LinkToPB(d.links[i]).link], d.data)

CommitNeverPanics(d) == FALSE

\* Whether building the node panics on a link hash that is not base58.
CommitPanics(d) == \E i \in 1..Len(d.links) : ~LinkToPB(d.links[i]).ok

CommitRequest(d) ==
  Request("POST", "object/put", "Json", [inputenc |-> "protobuf", data |-> PBNodeOf(d)])

CommitResultDropsData(d, reply, debug) ==
  LET r == ApiCall("Json", reply)
      size == ObjectSize(d, debug)
  IN IF r.tag = "Err"
     THEN [tag |-> "Err", error |-> r.error, object |-> Object(<< >>, d.links)]
     ELSE IF size = Panic THEN Panic
     ELSE [tag |-> "Ok", obj |-> CommittedObject(Reference(size.val, r.body.hash), d)]

\* Object::commit, lines 164-191: the result, given the reply to object/put;
\* object.size() of line 187 runs after the put was answered.
CommitResult(d, reply, debug) ==
  LET r == ApiCall("Json", reply)
      node == PBNodeOf(d)
      object == Object(node.Data, d.links)
      size == ObjectSize(object, debug)
  IN IF r.tag = "Err"
     THEN [tag |-> "Err", error |-> r.error, object |-> object]
     ELSE IF size = Panic THEN Panic
     ELSE [tag |-> "Ok", obj |-> CommittedObject(Reference(size.val, r.body.hash), object)]

\* CommittedObject::edit
Edit(c) == c.object

\* ---------------------------------------------------------------- get(path)

\* name::resolve
ResolveRequest(path, recursive) ==
  Request("GET", "resolve", "Json", [recursive |-> BoolToStr(recursive), arg |-> path])

ObjectGetRequest(path) ==
  Request("GET", "object/get", "Protobuf", [arg |-> path])

\* get, lines 259-270: the links of the fetched node.
LinksOfNode(node) ==
  [i \in 1..Len(node.Links) |->
     Link(node.Links[i].Name,
          Reference(node.Links[i].Tsize, ToBase58(node.Links[i].Hash)))]

AssembleObjectNoDrain(path, node, debug) ==
  LET object == Object(node.Data, LinksOfNode(node))
      size == ObjectSize(object, debug)
  IN IF size = Panic THEN Panic
     ELSE [tag |-> "Ok", obj |-> CommittedObject(Reference(size.val, path), object)]

\* get, lines 272-285: the object assembled from the resolved path and the
\* node; a resolved path without "/" panics in rfind(..).unwrap(), a size
\* that overflows panics in a build with overflow checks.
AssembleObject(path, node, debug) ==
  LET idx == Rfind(path, Slash)
      object == Object(node.Data, LinksOfNode(node))
      size == ObjectSize(object, debug)
  IN IF idx = 0 \/ size = Panic THEN Panic
     ELSE [tag |-> "Ok",
           obj |-> CommittedObject(Reference(size.val, SubSeq(path, idx + 1, Len(path))),
                                   object)]

\* ------------------------------------------------------------ Object::get

LocalGetPlanNoAbsoluteCheck(o, path) ==
  IF path = << >>
  THEN [tag |-> "Err", error |-> IoError("InvalidInput", "cannot resolve empty path")]
  ELSE IF \E k \in 1..Len(o.links) : o.links[k].name = path
  THEN [tag |-> "Get",
        path |-> o.links[CHOOSE k \in 1..Len(o.links) : o.links[k].name = path].object.hash]
  ELSE [tag |-> "Err", error |-> IoError("NotFound", "path lookup failed")]

\* Object::get, lines 80-98: an error, or the path handed to the top-level get.
LocalGetPlan(o, path) ==
  IF path = << >>
  THEN [tag |-> "Err", error |-> IoError("InvalidInput", "cannot resolve empty path")]
  ELSE IF StartsWith(path, << Slash >>)
  THEN [tag |-> "Err", error |-> IoError("InvalidInput", "expected relative path")]
  ELSE
    LET splits == SplitN(1, path, Slash)
        prefix == splits[1]
        suffix == IF Len(splits) >= 2 THEN Some(splits[2]) ELSE None
        hit == { k \in 1..Len(o.links) : o.links[k].name = prefix }
    IN IF hit = {}
       THEN [tag |-> "Err", error |-> IoError("NotFound", "path lookup failed")]
       ELSE LET link == o.links[CHOOSE k \in hit : \A m \in hit : k <= m]
            IN IF suffix = None \/ suffix = Some(<< >>)
               THEN [tag |-> "Get", path |-> link.object.hash]
               ELSE [tag |-> "Get",
                     path |-> link.object.hash \o << Slash >> \o suffix[1]]

\* ------------------------------------------------------- Reference methods

SizeCheckInverted(r, got) ==
  IF got.tag = "Ok" /\ got.obj.reference.size = r.size
  THEN Fail(IoError("InvalidData", "reference and referenced object sizes do not match"))
  ELSE got

\* Reference::get: the and_then closure applied to the result of get.
SizeCheck(r, got) ==
  IF got.tag = "Ok" /\ got.obj.reference.size # r.size
  THEN Fail(IoError("InvalidData", "reference and referenced object sizes do not match"))
  ELSE got

PinRequest(endpoint, r, recursive) ==
  Request("POST", endpoint, "Ignore", [recursive |-> BoolToStr(recursive), arg |-> r.hash])

UnpinResultFoldsAnyRemote(reply, debug) ==
  IF ApiCall("Ignore", reply).tag = "Err" /\ ApiCall("Ignore", reply).error.kind = "Other"
  THEN OkUnit ELSE ApiCall("Ignore", reply)

\* Reference::unpin: the or_else closure applied to the result of the post.
\* debug is whether debug assertions are compiled in.
UnpinResult(reply, debug) ==
  LET r == ApiCall("Ignore", reply)
  IN IF r.tag = "Ok" THEN r
     ELSE IF r.error.msg = NOT_PINNED THEN OkUnit
     ELSE IF debug /\ r.error.msg = INVALID_REF THEN Panic
     ELSE r

\* Reference::pin
PinResult(reply) == ApiCall("Ignore", reply)

\* ------------------------------------------------------ stat, lookup, publish

\* stat
StatRequest(path) == Request("GET", "object/stat", "Json", [arg |-> path])

\* lookup: a Reference from the hash and the cumulative size of the stat.
LookupResult(reply) ==
  LET r == ApiCall("Json", reply)
  IN IF r.tag = "Err" THEN r
     ELSE [tag |-> "Ok", ref |-> Reference(r.body.stat.CumulativeSize, r.body.stat.Hash)]

\* format!("{}", n) of an unsigned number
RECURSIVE Decimal(_)
Decimal(n) ==
  LET DigitChars == << "0", "1", "2", "3", "4", "5", "6", "7", "8", "9" >>
  IN IF n < 10 THEN << DigitChars[n + 1] >>
     ELSE Decimal(n \div 10) \o << DigitChars[(n % 10) + 1] >>

\* format!("{}s{}ns", expires_in.as_secs(), expires_in.subsec_nanos())
Lifetime(d) == Decimal(d.secs) \o << "s" >> \o Decimal(d.nanos) \o << "n", "s" >>

\* Duration::from_secs(60*60)*24, the lifetime publish passes on
DefaultLifetime == [secs |-> 60 * 60 * 24, nanos |-> 0]

\* publish_for
PublishRequest(r, expires_in) ==
  Request("POST", "name/publish", "Ignore",
          [resolve |-> "false", lifetime |-> Lifetime(expires_in), arg |-> r.hash])

\* ------------------------------------------------------------------ actions

\* Link names and data the caller uses.
Names == { << "a" >> }
Datas == { << >>, << 116 >> }
\* Link names the caller appends to a hash in a path.
TailNames == { << "l" >> }

\* The references the caller can take from the object it holds: its own
\* (CommittedObject::reference) and those of its links.
Refs(h) ==
  IF h = None THEN {}
  ELSE { h[1].reference } \cup { h[1].object.links[i].object : i \in 1..Len(h[1].object.links) }

\* Paths the caller passes to the top-level get.
UserPaths ==
  LET hs == { h[1].reference.hash : h \in { held } \ { None } } \cup { ForeignRootHash }
  IN hs \cup { IpfsPrefix \o ForeignRootHash, HashString(3), HashString(4) }
        \cup { h \o << Slash >> \o n : h \in hs, n \in TailNames }

\* Paths the caller passes to Object::get.
LocalPaths ==
  { << >>, << "a" >>, << "l" >>, << "c" >>, << Slash, "a" >>, << "a", Slash >>,
    << "a", Slash, "l" >> }

\* The object the caller calls Object::get on: the held one, through Deref.
LocalObjects == IF held = None THEN {} ELSE { held[1].object }

ObjectGetArgGivenPath(c) == c.target

\* get, line 257: the arg of object/get is the path resolve returned.
ObjectGetArg(c) == c.resolved

\* No call is in progress or awaiting the caller's look at its result.
Idle == [op |-> "idle"]

\* The result of a call that has not returned yet.
Pending == [tag |-> "Pending"]

\* The last call panicked: the program is gone.
Aborted == call # Idle /\ call.result = Panic

\* The caller can make its next call: the last one, if any, has returned
\* (it neither panicked nor is still waiting for a reply).
Ready == IF call = Idle THEN TRUE ELSE call.result \notin { Panic, Pending }

\* The store can take one more node.
StoreHasRoom == Len(store) < MaxStore

HeldAfter(result) == IF result.tag = "Ok" THEN Some(result.obj) ELSE held
OriginAfter(result, how) == IF result.tag = "Ok" THEN how ELSE origin

\* Object::new
NewDraft ==
  /\ StoreHasRoom
  /\ draft # Some(Object(<< >>, << >>))
  /\ draft' = Some(Object(<< >>, << >>))
  /\ UNCHANGED << store, pins, held, origin, call, wire, env >>

\* The caller writes the public field data.
SetData(d) ==
  /\ StoreHasRoom
  /\ draft # None
  /\ draft[1].data # d
  /\ draft' = Some(Object(d, draft[1].links))
  /\ UNCHANGED << store, pins, held, origin, call, wire, env >>

\* The caller pushes a link to the object it holds onto the public field links.
PushLink(name, r) ==
  /\ StoreHasRoom
  /\ draft # None
  /\ held # None
  /\ Len(draft[1].links) < MaxLinks
  /\ draft' = Some(Object(draft[1].data, Append(draft[1].links, Link(name, r))))
  /\ UNCHANGED << store, pins, held, origin, call, wire, env >>

\* Object::commit
Commit ==
  /\ draft # None
  /\ LET d == draft[1]
         node == PBNodeOf(d)
     IN IF CommitPanics(d)
        THEN /\ call' = [op |-> "commit", draft |-> d, result |-> Panic]
             /\ wire' = << >>
             /\ UNCHANGED << store, held, origin >>
        ELSE \E reply \in Faults \cup DaemonObjectPut(node) :
               /\ reply \in Faults \/ PutIndex(node) <= MaxStore
               /\ call' = [op |-> "commit", draft |-> d,
                           result |-> CommitResult(d, reply, debug_assertions)]
               /\ wire' = << Exchange(CommitRequest(d), reply) >>
               /\ store' = IF reply \notin Faults /\ PutIndex(node) > Len(store)
                           THEN Append(store, node) ELSE store
               /\ held' = HeldAfter(CommitResult(d, reply, debug_assertions))
               /\ origin' = OriginAfter(CommitResult(d, reply, debug_assertions), "commit")
  /\ draft' = None
  /\ UNCHANGED << pins, env >>

\* The caller takes the draft back out of a CommitError.
Salvage ==
  /\ call.op = "commit"
  /\ call.result.tag = "Err"
  /\ draft' = Some(call.result.object)
  /\ call' = Idle
  /\ wire' = << >>
  /\ UNCHANGED << store, pins, held, origin, env >>

\* The caller is done with the result of the last call (a panic ends the
\* program: nothing follows it).
Return ==
  /\ call # Idle
  /\ Ready
  /\ call' = Idle
  /\ wire' = << >>
  /\ UNCHANGED << store, pins, draft, held, origin, env >>

\* CommittedObject::edit
EditHeld ==
  /\ held # None
  /\ draft' = Some(Edit(held[1]))
  /\ held' = None
  /\ origin' = "none"
  /\ UNCHANGED << store, pins, call, wire, env >>

\* The top-level get is entered with a path; nothing is sent yet.
Get(path) ==
  /\ call' = [op |-> "get", path |-> path, holding |-> held, origin |-> origin,
              entry |-> InEffect, target |-> path, resolved |-> << >>,
              pc |-> "resolve", result |-> Pending]
  /\ wire' = << >>
  /\ UNCHANGED << store, pins, draft, held, origin, env >>

\* Object::get returns its own error, or enters the top-level get with the
\* path it built.
LocalGet(o, path) ==
  LET plan == LocalGetPlan(o, path)
  IN /\ call' = [op |-> "object_get", object |-> o, path |-> path, holding |-> held,
                 origin |-> origin, entry |-> InEffect,
                 target |-> IF plan.tag = "Err" THEN << >> ELSE plan.path,
                 resolved |-> << >>,
                 pc |-> IF plan.tag = "Err" THEN "done" ELSE "resolve",
                 result |-> IF plan.tag = "Err" THEN plan ELSE Pending]
     /\ wire' = << >>
     /\ UNCHANGED << store, pins, draft, held, origin, env >>

\* Reference::get enters the top-level get with its hash.
RefGet(r) ==
  /\ call' = [op |-> "reference_get", ref |-> r, holding |-> held, origin |-> origin,
              entry |-> InEffect, target |-> r.hash, resolved |-> << >>,
              pc |-> "resolve", fetched |-> Pending, result |-> Pending]
  /\ wire' = << >>
  /\ UNCHANGED << store, pins, draft, held, origin, env >>

\* The call record when the top-level get returns got: get and Object::get
\* return it, Reference::get checks the size first.
GetReturns(c, got) ==
  IF c.op = "reference_get"
  THEN [c EXCEPT !.pc = "done", !.fetched = got, !.result = SizeCheck(c.ref, got)]
  ELSE [c EXCEPT !.pc = "done", !.result = got]

\* get, line 254: resolve builds its URL, is sent and answered; an error
\* returns from get.
GetResolve ==
  /\ call.op \in { "get", "object_get", "reference_get" }
  /\ call.pc = "resolve"
  /\ CanRead
  /\ \E reply1 \in Faults \cup DaemonResolve(call.target) :
       LET r1 == ApiCall("Json", reply1)
       IN /\ wire' = << Exchange(ResolveRequest(call.target, TRUE), reply1) >>
          /\ call' = IF r1.tag = "Err" THEN GetReturns(call, r1)
                     ELSE [call EXCEPT !.pc = "object_get", !.resolved = r1.body.path]
  /\ UNCHANGED << store, pins, draft, held, origin, env >>

\* get, lines 257-285: object/get builds its URL, is sent and answered, the
\* object is assembled and get returns.
GetObjectGet ==
  /\ call.op \in { "get", "object_get", "reference_get" }
  /\ call.pc = "object_get"
  /\ CanRead
  /\ \E reply2 \in Faults \cup DaemonObjectGet(ObjectGetArg(call)) :
       LET r2 == ApiCall("Protobuf", reply2)
           got == IF r2.tag = "Err" THEN r2
                  ELSE AssembleObject(call.resolved, r2.body.node, debug_assertions)
           after == GetReturns(call, got)
       IN /\ wire' = Append(wire, Exchange(ObjectGetRequest(ObjectGetArg(call)), reply2))
          /\ call' = after
          /\ held' = HeldAfter(after.result)
          /\ origin' = OriginAfter(after.result, "get")
  /\ UNCHANGED << store, pins, draft, env >>

\* Reference::pin
Pin(r, recursive) ==
  \E reply \in Faults \cup DaemonPinAdd(r.hash) :
    /\ call' = [op |-> "pin", ref |-> r, recursive |-> recursive,
                result |-> PinResult(reply)]
    /\ wire' = << Exchange(PinRequest("pin/add", r, recursive), reply) >>
    /\ pins' = IF reply \notin Faults /\ reply.t = "success"
               THEN pins \cup { DaemonRoot(DaemonSegments(r.hash)) } ELSE pins
    /\ UNCHANGED << store, draft, held, origin, env >>

\* Reference::unpin, in a build with (debug) or without debug assertions
Unpin(r, recursive, debug) ==
  \E reply \in Faults \cup DaemonPinRm(r.hash) :
    /\ call' = [op |-> "unpin", ref |-> r, recursive |-> recursive, debug |-> debug,
                result |-> UnpinResult(reply, debug)]
    /\ wire' = << Exchange(PinRequest("pin/rm", r, recursive), reply) >>
    /\ pins' = IF reply \notin Faults /\ reply.t = "success"
               THEN pins \ { DaemonRoot(DaemonSegments(r.hash)) } ELSE pins
    /\ UNCHANGED << store, draft, held, origin, env >>

\* publish: publish_for with the default lifetime
Publish(r) ==
  \E reply \in Faults \cup DaemonNamePublish(r.hash) :
    /\ call' = [op |-> "publish", ref |-> r, result |-> ApiCall("Ignore", reply)]
    /\ wire' = << Exchange(PublishRequest(r, DefaultLifetime), reply) >>
    /\ ipns' = IF reply \notin Faults /\ reply.t = "success"
               THEN DaemonRoot(DaemonSegments(r.hash)) ELSE ipns
    /\ UNCHANGED << store, pins, draft, held, origin, IPFS_BASE, rwlock, debug_assertions >>

\* Paths the caller passes to lookup: the object it holds, as its reference
\* prints, and this peer's name.
LookupPaths == { Display(h[1].reference) : h \in { held } \ { None } } \cup { IpnsPath }

\* lookup
Lookup(path) ==
  \E reply \in Faults \cup DaemonObjectStat(path) :
    /\ call' = [op |-> "lookup", path |-> path, holding |-> held,
                result |-> LookupResult(reply)]
    /\ wire' = << Exchange(StatRequest(path), reply) >>
    /\ UNCHANGED << store, pins, draft, held, origin, env >>

Init ==
  /\ store = ForeignStore
  /\ pins = {}
  /\ draft = None
  /\ held = None
  /\ origin = "none"
  /\ call = Idle
  /\ wire = << >>
  /\ ipns = 0
  /\ IPFS_BASE = DefaultUrl
  /\ rwlock = Unlocked
  /\ debug_assertions \in BOOLEAN

\* The object model: one call at a time, each result looked at before the
\* next call.
Next ==
  \/ call = Idle /\ NewDraft
  \/ call = Idle /\ \E d \in Datas : SetData(d)
  \/ call = Idle /\ \E n \in Names : PushLink(n, held[1].reference)
  \/ call = Idle /\ Commit
  \/ call = Idle /\ EditHeld
  \/ call = Idle /\ \E p \in UserPaths : Get(p)
  \/ call = Idle /\ \E o \in LocalObjects, p \in LocalPaths : LocalGet(o, p)
  \/ call = Idle /\ \E r \in Refs(held) : RefGet(r)
  \/ GetResolve
  \/ GetObjectGet
  \/ Salvage
  \/ Return

Spec == Init /\ [][Next]_vars

\* Pinning: calls follow one another directly.
NextPin ==
  \/ Ready /\ \E p \in UserPaths : Get(p)
  \/ GetResolve
  \/ GetObjectGet
  \/ Ready /\ \E r \in Refs(held), rec \in BOOLEAN : Pin(r, rec)
  \/ Ready /\ \E r \in Refs(held), rec \in BOOLEAN : Unpin(r, rec, debug_assertions)

SpecPin == Init /\ [][NextPin]_vars

\* Names: commit or get an object, publish it, look paths up.
NextName ==
  \/ Ready /\ NewDraft
  \/ Ready /\ \E d \in Datas : SetData(d)
  \/ Ready /\ Commit
  \/ Ready /\ \E p \in UserPaths : Get(p)
  \/ GetResolve
  \/ GetObjectGet
  \/ Ready /\ \E h \in { held } \ { None } : Publish(h[1].reference)
  \/ Ready /\ \E p \in LookupPaths : Lookup(p)

SpecName == Init /\ [][NextName]_vars

\* Endpoints the program passes to set_api_endpoint.
Urls ==
  { DefaultUrl, [host |-> "10.0.0.2", port |-> 5002], [host |-> "10.0.0.3", port |-> 5003] }

\* set_api_endpoint: IPFS_BASE.write() takes the lock once no reader or
\* writer holds it ...
SetApiEndpoint(url) ==
  /\ rwlock = Unlocked
  /\ rwlock' = [w |-> "host", url |-> url, old |-> IPFS_BASE]
  /\ UNCHANGED << store, pins, draft, held, origin, call, wire, ipns, IPFS_BASE,
                  debug_assertions >>

\* ... the assignment moves the new Url in, field after field ...
StoreHost ==
  /\ rwlock.w = "host"
  /\ IPFS_BASE' = [IPFS_BASE EXCEPT !.host = rwlock.url.host]
  /\ rwlock' = [rwlock EXCEPT !.w = "port"]
  /\ UNCHANGED << store, pins, draft, held, origin, call, wire, ipns, debug_assertions >>

\* ... and the guard is dropped at the end of the statement.
StorePort ==
  /\ rwlock.w = "port"
  /\ IPFS_BASE' = [IPFS_BASE EXCEPT !.port = rwlock.url.port]
  /\ rwlock' = Unlocked
  /\ UNCHANGED << store, pins, draft, held, origin, call, wire, ipns, debug_assertions >>

\* One thread calls get while another calls set_api_endpoint.
NextEndpoint ==
  \/ \E url \in Urls : SetApiEndpoint(url)
  \/ StoreHost
  \/ StorePort
  \/ Ready /\ \E p \in UserPaths : Get(p)
  \/ GetResolve
  \/ GetObjectGet

SpecEndpoint == Init /\ [][NextEndpoint]_vars

\* The transport facade on its own: any method through any codec, answered
\* in any way the HTTP layer can answer.
Codecs == { "Json", "Protobuf", "Ignore" }
ApiMethods == { "resolve", "object/get", "pin/rm" }
ReadErrorKinds == { "ConnectionReset", "TimedOut" }
Messages == { NOT_PINNED, INVALID_REF, "merkledag: not found" }
ApiReplies ==
  { IoFault, HyperFault, GarbledSuccess, GarbledFailure,
    [t |-> "success", garbled |-> FALSE] }
    \cup { Failure(m) : m \in Messages }
    \cup { ReadError(t, k) : t \in { "success", "failure" }, k \in ReadErrorKinds }

\* api::get
ApiGet(method, codec) ==
  \E reply \in ApiReplies :
    /\ call' = [op |-> "api_get", codec |-> codec, result |-> ApiCall(codec, reply)]
    /\ wire' = << Exchange(Request("GET", method, codec, [arg |-> ForeignRootHash]), reply) >>
    /\ UNCHANGED << store, pins, draft, held, origin, env >>

\* api::post
ApiPost(method, codec) ==
  \E reply \in ApiReplies :
    /\ call' = [op |-> "api_post", codec |-> codec, result |-> ApiCall(codec, reply)]
    /\ wire' = << Exchange(Request("POST", method, codec, [arg |-> ForeignRootHash]), reply) >>
    /\ UNCHANGED << store, pins, draft, held, origin, env >>

\* api::post_data
ApiPostData(method, codec, data) ==
  \E reply \in ApiReplies :
    /\ call' = [op |-> "api_post_data", codec |-> codec, result |-> ApiCall(codec, reply)]
    /\ wire' = << Exchange(Request("POST", method, codec, [data |-> data]), reply) >>
    /\ UNCHANGED << store, pins, draft, held, origin, env >>

NextApi ==
  \/ \E m \in ApiMethods, c \in Codecs : ApiGet(m, c)
  \/ \E m \in ApiMethods, c \in Codecs : ApiPost(m, c)
  \/ \E c \in Codecs, d \in Datas : ApiPostData("object/put", c, d)

SpecApi == Init /\ [][NextApi]_vars

\* ------------------------------------- the older recursive design (lib.rs)

\* ObjectRefInner::{Link, Object, ObjectEditor}
ObjectRefLink(size, hash) == [kind |-> "Link", size |-> size, hash |-> hash]
ObjectRefObject(o) == [kind |-> "Object", obj |-> o]
ObjectRefEditor(e) == [kind |-> "ObjectEditor", editor |-> e]

\* LinkEditor { name, object }, ObjectEditor { data, links }
LinkEditor(name, object) == [name |-> name, object |-> object]
ObjectEditor(data, links) == [data |-> data, links |-> links]

\* Link { name, size, hash } and Object { size, hash, data, links } of lib.rs
EditorLink(name, size, hash) == [name |-> name, size |-> size, hash |-> hash]
EditorObject(size, hash, data, links) ==
  [size |-> size, hash |-> hash, data |-> data, links |-> links]

\* From<Link> for LinkEditor
LinkEditorFrom(l) == LinkEditor(l.name, ObjectRefLink(l.size, l.hash))
LinkEditorsFrom(ls) == [j \in 1..Len(ls) |-> LinkEditorFrom(ls[j])]

\* new_links.iter().fold(0, |c, l| c + l.size)
RECURSIVE FoldLinkSizes(_, _)
FoldLinkSizes(ls, debug) ==
  IF ls = << >> THEN [tag |-> "Ok", val |-> U64(0)]
  ELSE LET c == FoldLinkSizes(SubSeq(ls, 1, Len(ls) - 1), debug)
       IN IF c = Panic THEN Panic ELSE AddU64(c.val, ls[Len(ls)].size, debug)

\* Line 137: the size of the object, the fold + self.data.len() as u64.
EditorSize(data, new_links, debug) ==
  LET f == FoldLinkSizes(new_links, debug)
  IN IF f = Panic THEN Panic ELSE AddU64(f.val, U64(Len(data)), debug)

\* The PBNode of an editor: lines 139-152.
EditorNode(data, new_links) ==
  PBNode([j \in 1..Len(new_links) |->
            PBLink(new_links[j].name, FromBase58(new_links[j].hash).bytes, new_links[j].size)],
         data)

\* Whether building the node panics in from_base58().unwrap() (line 145).
EditorNodePanics(new_links) ==
  \E j \in 1..Len(new_links) : ~FromBase58(new_links[j].hash).ok

\* The request of api::post_data("object/put", ..) of lines 160-164.
EditorPutRequest(node) ==
  [base |-> IPFS_BASE, verb |-> "POST", endpoint |-> "object/put",
   encoding |-> Some("json"),
   args |-> [inputenc |-> "protobuf", streamchannels |-> "true", data |-> node]]

\* api::post_data(..).and_then(parse_json).map(|resp: PutResult| resp.Hash):
\* the body is parsed as {Hash} whatever the status, so an error body, which
\* has no Hash, fails to parse like a malformed one.
EditorPutResult(reply) ==
  IF reply.t = "io" THEN Fail(IoError("ConnectionRefused", "connection refused"))
  ELSE IF reply.t = "failure" \/ reply.garbled
  THEN Fail(IoError("InvalidData", "decode error"))
  ELSE [tag |-> "Ok", hash |-> reply.hash]

\* ObjectEditor::commit, lines 137-187: what the commit of an editor with
\* this data returns once its links are new_links and its put is answered.
EditorPut(data, new_links, reply, debug) ==
  LET size == EditorSize(data, new_links, debug)
      node == EditorNode(data, new_links)
      r == EditorPutResult(reply)
  IN IF size = Panic \/ EditorNodePanics(new_links) THEN Panic
     ELSE IF r.tag = "Err"
     THEN [tag |-> "Err", error |-> r.error,
           editor |-> ObjectEditor(node.Data, LinkEditorsFrom(new_links))]
     ELSE [tag |-> "Ok", object |-> EditorObject(size.val, r.hash, node.Data, new_links)]

EditorRollbackDropsRest(editor, i, new_links, failed) ==
  ObjectEditor(editor.data,
               LinkEditorsFrom(new_links)
                 \o << LinkEditor(editor.links[i].name, ObjectRefEditor(failed)) >>)

\* ObjectEditor::commit, lines 117-128: the editor handed back when the
\* commit of the i-th link's editor failed and returned the editor failed.
EditorRollback(editor, i, new_links, failed) ==
  ObjectEditor(editor.data,
               LinkEditorsFrom(new_links)
                 \o << LinkEditor(editor.links[i].name, ObjectRefEditor(failed)) >>
                 \o SubSeq(editor.links, i + 1, Len(editor.links)))

\* One activation of ObjectEditor::commit: the editor it runs on (self), the
\* link its while loop is at, and new_links.
Frame(editor, i, new_links) == [editor |-> editor, i |-> i, new_links |-> new_links]

\* The while loop (lines 95-136) of the innermost activation, run until a
\* put is due: a Link or Object becomes a Link of new_links, an editor is
\* entered (editor.commit(), line 105).
RECURSIVE EditorDescend(_)
EditorDescend(stack) ==
  LET f == stack[Len(stack)]
      below == SubSeq(stack, 1, Len(stack) - 1)
  IN IF f.i > Len(f.editor.links) THEN stack
     ELSE
       LET link == f.editor.links[f.i]
       IN IF link.object.kind = "Link"
          THEN EditorDescend(Append(below,
                 Frame(f.editor, f.i + 1,
                       Append(f.new_links,
                              EditorLink(link.name, link.object.size, link.object.hash)))))
          ELSE IF link.object.kind = "Object"
          THEN EditorDescend(Append(below,
                 Frame(f.editor, f.i + 1,
                       Append(f.new_links,
                              EditorLink(link.name, link.object.obj.size,
                                         link.object.obj.hash)))))
          ELSE EditorDescend(Append(stack, Frame(link.object.editor, 1, << >>)))

\* Lines 107-113: the activation that called editor.commit() gets the
\* object back and pushes the Link to it.
EditorResume(f, object) ==
  Frame(f.editor, f.i + 1,
        Append(f.new_links, EditorLink(f.editor.links[f.i].name, object.size, object.hash)))

\* Lines 114-131 in every activation that waits for a commit, innermost
\* first: each returns the error with its own editor rolled back.
RECURSIVE EditorUnwind(_, _)
EditorUnwind(stack, failed) ==
  IF stack = << >> THEN failed
  ELSE LET f == stack[Len(stack)]
       IN EditorUnwind(SubSeq(stack, 1, Len(stack) - 1),
                       EditorRollback(f.editor, f.i, f.new_links, failed))

\* What the links of an editor point at: a foreign node by size and hash,
\* the foreign leaf as a fetched Object, or another editor.
KnownRefs ==
  { ObjectRefLink(U64(3), ForeignRootHash),
    ObjectRefLink(U64Max, HashString(3)),
    ObjectRefObject(EditorObject(U64(1), HashString(1), << 116 >>, << >>)) }

\* The i-th link is named "a", "b", ...
EditorLinkNames == << << "a" >>, << "b" >>, << "c" >> >>

\* The editors with data from Datas and 1..MaxEditorLinks links to targets.
EditorsOver(targets) ==
  UNION { { ObjectEditor(d, [i \in 1..n |-> LinkEditor(EditorLinkNames[i], f[i])]) :
              d \in Datas, f \in [1..n -> targets] } : n \in 1..MaxEditorLinks }

\* Editor trees: leaves, editors over known objects and leaves, and those
\* with, under one of their links, an editor that has no data of its own and
\* only leaves under its links.
LeafEditors == { ObjectEditor(d, << >>) : d \in Datas }
Editors1 == EditorsOver(KnownRefs \cup { ObjectRefEditor(e) : e \in LeafEditors })
NestedEditors ==
  { x \in EditorsOver({ ObjectRefEditor(e) : e \in LeafEditors }) : x.data = << >> }
Editors2 ==
  UNION { { [e EXCEPT !.links[i].object = ObjectRefEditor(x)] :
              i \in 1..Len(e.links), x \in NestedEditors } : e \in Editors1 }
Editors == LeafEditors \cup Editors1 \cup Editors2

\* ObjectEditor::commit is called on a tree: nothing is sent yet.
EditorCommitEnter(e) ==
  /\ call' = [op |-> "editor_commit", editor |-> e,
              stack |-> << Frame(e, 1, << >>) >>, result |-> Pending]
  /\ wire' = << >>
  /\ UNCHANGED << store, pins, draft, held, origin, env >>

\* The commit runs up to its next object/put, which is sent and answered,
\* and on from the answer: the activation returns its object to the one
\* that waits for it, or the error unwinds every activation.
EditorCommitPut ==
  /\ call.op = "editor_commit"
  /\ call.result = Pending
  /\ CanRead
  /\ LET stack == EditorDescend(call.stack)
         f == stack[Len(stack)]
         below == SubSeq(stack, 1, Len(stack) - 1)
         node == EditorNode(f.editor.data, f.new_links)
     IN IF \/ EditorSize(f.editor.data, f.new_links, debug_assertions) = Panic
           \/ EditorNodePanics(f.new_links)
        THEN /\ call' = [call EXCEPT !.stack = << >>, !.result = Panic]
             /\ UNCHANGED << wire, store >>
        ELSE \E reply \in Faults \cup DaemonObjectPut(node) :
               LET r == EditorPut(f.editor.data, f.new_links, reply, debug_assertions)
               IN /\ wire' = Append(wire, Exchange(EditorPutRequest(node), reply))
                  /\ store' = IF reply \notin Faults /\ PutIndex(node) > Len(store)
                              THEN Append(store, node) ELSE store
                  /\ call' =
                       IF r.tag = "Err"
                       THEN [call EXCEPT
                               !.stack = << >>,
                               !.result = [tag |-> "Err", error |-> r.error,
                                           editor |-> EditorUnwind(below, r.editor)]]
                       ELSE IF below = << >>
                       THEN [call EXCEPT !.stack = << >>, !.result = r]
                       ELSE [call EXCEPT
                               !.stack = Append(SubSeq(below, 1, Len(below) - 1),
                                                EditorResume(below[Len(below)], r.object))]
  /\ UNCHANGED << pins, draft, held, origin, env >>

\* One commit of an editor tree, put by put.
NextEditor ==
  \/ call = Idle /\ \E e \in Editors : EditorCommitEnter(e)
  \/ EditorCommitPut

SpecEditor == Init /\ [][NextEditor]_vars

\* ------------------------------------------------------------------- claims

\* The committed objects the library has handed out: the one the caller
\* holds and the one the last call returned.
Produced ==
  { h[1] : h \in { held } \ { None } }
    \cup (IF call.op \in { "commit", "get", "object_get", "reference_get" }
             /\ call.result.tag = "Ok"
          THEN { call.result.obj } ELSE {})

\* A natural number that may exceed u64::MAX: over * 2^64 + val.
Exactly(x) == [over |-> 0, val |-> x]
Plus(n, x) == [over |-> n.over + AddWide(n.val, x).carry, val |-> AddWide(n.val, x).val]

\* len(data) + the sum of link.object.size over the links, as a natural number
RECURSIVE SumLinkSizes(_)
SumLinkSizes(links) ==
  IF links = << >> THEN Exactly(U64(0))
  ELSE Plus(SumLinkSizes(Tail(links)), links[1].object.size)
ComputedSize(o) == Plus(SumLinkSizes(o.links), U64(Len(o.data)))

\* The last call has returned (or aborted).
Returned == IF call = Idle THEN FALSE ELSE call.result # Pending

\* Every exchange of the last call was answered by the daemon itself.
Reachable == \A i \in 1..Len(wire) : wire[i].reply \notin Faults

\* C1: every CommittedObject produced by Object::commit or by the top-level
\* get has reference.size = len(data) + sum of link.object.size over its
\* links, after any sequence of commit, get and edit.
C1_ReferenceSizeIsComputedSize ==
  \A c \in Produced : Exactly(c.reference.size) = ComputedSize(c.object)

\* C2: round trip.  When commit returned c (the caller holds it, origin
\* "commit") and get(c.hash()) runs against a reachable daemon, get returns
\* an object with c's reference (hash and size), c's data (the draft's data)
\* and links that match c's pointwise in name and size.
C2_RoundTrip ==
  (/\ call.op = "get"
   /\ Returned
   /\ call.origin = "commit"
   /\ call.path = call.holding[1].reference.hash
   /\ Reachable)
  => /\ call.result.tag = "Ok"
     /\ LET c == call.holding[1]
            g == call.result.obj
        IN /\ g.reference = c.reference
           /\ g.object.data = c.object.data
           /\ Len(g.object.links) = Len(c.object.links)
           /\ \A i \in 1..Len(c.object.links) :
                /\ g.object.links[i].name = c.object.links[i].name
                /\ g.object.links[i].object.size = c.object.links[i].object.size

\* get(c.hash()) returned, for a committed c with data and two links.
C2_Witness ==
  /\ call.op = "get"
  /\ call.origin = "commit"
  /\ call.path = call.holding[1].reference.hash
  /\ Reachable
  /\ call.result.tag = "Ok"
  /\ Len(call.holding[1].object.links) = MaxLinks
  /\ call.holding[1].object.data # << >>

\* C3: a failed commit returns a CommitError whose object has exactly the
\* data and the links (names, references, order) of the draft passed in.
C3_CommitErrorCarriesDraft ==
  (call.op = "commit" /\ call.result.tag = "Err")
  => /\ call.result.object.data = call.draft.data
     /\ call.result.object.links = call.draft.links

\* A commit of a draft with data and links failed.
C3_Witness ==
  /\ call.op = "commit"
  /\ call.result.tag = "Err"
  /\ call.draft.data # << >>
  /\ Len(call.draft.links) = MaxLinks

\* C4: a successful commit does not alter the content.  The node sent to
\* object/put carries the draft's data and, in order, one PBLink per link
\* with its name, its size and its decoded hash; the committed object holds
\* the draft, and edit() returns it.
C4_CommitKeepsContent ==
  (call.op = "commit" /\ call.result.tag = "Ok")
  => LET d == call.draft
         sent == wire[1].req.args.data
     IN /\ wire[1].req.endpoint = "object/put"
        /\ sent.Data = d.data
        /\ Len(sent.Links) = Len(d.links)
        /\ \A i \in 1..Len(d.links) :
             /\ sent.Links[i].Name = d.links[i].name
             /\ sent.Links[i].Tsize = d.links[i].object.size
             /\ sent.Links[i].Hash = FromBase58(d.links[i].object.hash).bytes
        /\ call.result.obj.object = d
        /\ Edit(call.result.obj) = d

\* A draft with data and two links to different objects was committed.
C4_Witness ==
  /\ call.op = "commit"
  /\ call.result.tag = "Ok"
  /\ call.draft.data # << >>
  /\ Len(call.draft.links) = MaxLinks
  /\ call.draft.links[1].object # call.draft.links[Len(call.draft.links)].object

SizeMismatch ==
  Fail(IoError("InvalidData", "reference and referenced object sizes do not match"))

\* C5 as claimed: Reference::get fails with InvalidData if and only if the
\* fetched object's computed size differs from the reference's size.
C5_InvalidDataIffSizeDiffers ==
  (call.op = "reference_get" /\ Returned)
  => ((call.result.tag = "Err" /\ call.result.error.kind = "InvalidData")
      <=> (/\ call.fetched.tag = "Ok"
           /\ ComputedSize(call.fetched.obj.object) # Exactly(call.ref.size)))

\* C5 as amended: Reference::get returns the size-mismatch InvalidData error
\* exactly when the fetch succeeded and the fetched object's computed size,
\* taken modulo 2^64 as the u64 sum of Object::size takes it, differs from
\* the reference's size; it returns the fetched object when the two agree,
\* and the fetch's own error, unchanged, when the fetch failed (that error
\* is InvalidData too when a body did not decode).
C5_SizeMismatchIffFetchedSizeDiffers ==
  (call.op = "reference_get" /\ Returned)
  => LET differs == /\ call.fetched.tag = "Ok"
                    /\ ComputedSize(call.fetched.obj.object).val # call.ref.size
     IN /\ (call.result = SizeMismatch) <=> differs
        /\ ~differs => call.result = call.fetched

\* Reference::get found a size other than the reference's.
C5_Witness ==
  /\ call.op = "reference_get"
  /\ call.fetched.tag = "Ok"
  /\ ComputedSize(call.fetched.obj.object).val # call.ref.size
  /\ call.result = SizeMismatch

\* C6 as claimed: unpin is idempotent.  When unpin(x) is followed at once by
\* unpin(x), the daemon reachable both times, both calls succeed (so also
\* after pin(x, true); unpin(x, true)).
C6_UnpinTwiceSucceeds ==
  [][ (/\ call.op = "unpin"
       /\ Reachable
       /\ call'.op = "unpin"
       /\ call'.ref = call.ref
       /\ Reachable')
      => (call.result.tag = "Ok" /\ call'.result.tag = "Ok") ]_vars

\* The daemon answered the pin or unpin request with a failure and a Message.
RemoteFailure == wire[1].reply.t = "failure" /\ ~wire[1].reply.garbled

\* C7 as claimed: on a failure response unpin returns success when the
\* Message is exactly "not pinned" and an error carrying the Message
\* otherwise; pin returns an error carrying the Message for every failure.
C7_UnpinFoldsOnlyNotPinned ==
  /\ (call.op = "unpin" /\ RemoteFailure)
     => IF wire[1].reply.message = NOT_PINNED
        THEN call.result = OkUnit
        ELSE call.result = Fail(IoError("Other", wire[1].reply.message))
  /\ (call.op = "pin" /\ RemoteFailure)
     => call.result = Fail(IoError("Other", wire[1].reply.message))

\* C7 as amended: as claimed, except that in a build with debug assertions
\* the Message "invalid ipfs ref path" makes unpin panic instead of
\* returning the error.
C7_UnpinFoldsOnlyNotPinnedOrAborts ==
  /\ (call.op = "unpin" /\ RemoteFailure)
     => IF wire[1].reply.message = NOT_PINNED
        THEN call.result = OkUnit
        ELSE IF call.debug /\ wire[1].reply.message = INVALID_REF
        THEN call.result = Panic
        ELSE call.result = Fail(IoError("Other", wire[1].reply.message))
  /\ (call.op = "pin" /\ RemoteFailure)
     => call.result = Fail(IoError("Other", wire[1].reply.message))

\* unpin got "not pinned" from the daemon and returned success.
C7_Witness ==
  /\ call.op = "unpin"
  /\ RemoteFailure
  /\ wire[1].reply.message = NOT_PINNED
  /\ call.result = OkUnit

\* The part of a path before its first "/", and the part after it.
FirstComponent(path) ==
  IF Find(path, Slash) = 0 THEN path ELSE SubSeq(path, 1, Find(path, Slash) - 1)
AfterFirstSlash(path) ==
  IF Find(path, Slash) = 0 THEN << >> ELSE SubSeq(path, Find(path, Slash) + 1, Len(path))

HasLinkNamed(o, name) == \E k \in 1..Len(o.links) : o.links[k].name = name

ErrorOfKind(result, kind) == result.tag = "Err" /\ result.error.kind = kind

\* C8: Object::get fails with InvalidInput for "" and for every path that
\* starts with "/", and with NotFound for a name that no link of the object
\* has, so for every relative path on an object without links.
C8_LocalGetRejectsBadPaths ==
  call.op = "object_get"
  => /\ call.path = << >> => ErrorOfKind(call.result, "InvalidInput")
     /\ (call.path # << >> /\ call.path[1] = Slash)
        => ErrorOfKind(call.result, "InvalidInput")
     /\ (/\ call.path # << >>
         /\ call.path[1] # Slash
         /\ \/ call.object.links = << >>
            \/ Find(call.path, Slash) = 0 /\ ~HasLinkNamed(call.object, call.path))
        => ErrorOfKind(call.result, "NotFound")

\* Object::get was asked for a name on an object without links.
C8_Witness ==
  /\ call.op = "object_get"
  /\ call.object.links = << >>
  /\ call.path = << "c" >>
  /\ ErrorOfKind(call.result, "NotFound")

\* C9 as claimed: Object::get splits the path at the first "/", selects the
\* first link named like the part before it, and runs the top-level get on
\* that link's hash, joined by "/" with the part after the first "/" when
\* that part is not empty: its first request is resolve of that path.
C9_TraversalSplitsAtFirstSlash ==
  (/\ call.op = "object_get"
   /\ Returned
   /\ call.path # << >>
   /\ call.path[1] # Slash
   /\ HasLinkNamed(call.object, FirstComponent(call.path)))
  => LET o == call.object
         k == CHOOSE k \in 1..Len(o.links) :
                /\ o.links[k].name = FirstComponent(call.path)
                /\ \A m \in 1..(k - 1) : o.links[m].name # FirstComponent(call.path)
         rest == AfterFirstSlash(call.path)
     IN /\ wire # << >>
        /\ wire[1].req.endpoint = "resolve"
        /\ wire[1].req.args.arg =
             o.links[k].object.hash \o (IF rest = << >> THEN << >> ELSE << Slash >> \o rest)

\* C10 as claimed: the hash of every committed object that commit or the
\* top-level get produced is not empty and is valid base58.
C10_HashIsBase58 ==
  \A c \in Produced :
    /\ c.reference.hash # << >>
    /\ \A i \in 1..Len(c.reference.hash) : IsB58Char(c.reference.hash[i])

\* C11 as claimed: an object o that the top-level get returned is consistent
\* with its reference.  When o.reference().get() runs against the reachable
\* daemon, it succeeds (the size check passes) and returns an object with
\* the data and the links of o.
C11_ReferenceOfGetRefetches ==
  (/\ call.op = "reference_get"
   /\ Returned
   /\ call.origin = "get"
   /\ call.ref = call.holding[1].reference
   /\ Reachable)
  => /\ call.result.tag = "Ok"
     /\ call.result.obj.object.data = call.holding[1].object.data
     /\ call.result.obj.object.links = call.holding[1].object.links

\* C12 as claimed: for the committed object c the caller holds,
\* lookup(c.reference.to_string()) against the reachable daemon returns a
\* Reference equal to c.reference, hash and size.
C12_LookupReturnsReference ==
  (/\ call.op = "lookup"
   /\ call.holding # None
   /\ call.path = Display(call.holding[1].reference)
   /\ Reachable)
  => call.result = [tag |-> "Ok", ref |-> call.holding[1].reference]

\* C13 as claimed: publish(&c) succeeds, and a lookup of this peer's /ipns/
\* path that follows it returns a Reference equal to c.reference (the daemon
\* reachable both times).
C13_PublishThenLookup ==
  [][ (/\ call.op = "publish"
       /\ Reachable
       /\ call'.op = "lookup"
       /\ call'.path = IpnsPath
       /\ Reachable')
      => (/\ call.result = OkUnit
          /\ call'.result = [tag |-> "Ok", ref |-> call.ref]) ]_vars

\* C14 as claimed: with set_api_endpoint running concurrently, every request
\* of a get goes to the endpoint that was in effect when get was entered,
\* and that endpoint is a whole value, never a partially written one.
C14_RequestsUseEndpointAtEntry ==
  call.op = "get"
  => \A i \in 1..Len(wire) :
       /\ wire[i].req.base = call.entry
       /\ wire[i].req.base \in Urls

\* C14 as amended: every request goes to the endpoint in effect when the
\* URL of that request is built, a whole value; the two requests of one get
\* can go to different endpoints.
C14_RequestUsesEndpointInEffect ==
  [][ Len(wire') = Len(wire) + 1
      => /\ wire'[Len(wire')].req.base = InEffect
         /\ wire'[Len(wire')].req.base \in Urls ]_vars

\* A get sent resolve to one endpoint and object/get to another, a
\* set_api_endpoint having completed in between.
C14_Witness ==
  /\ call.op = "get"
  /\ call.pc = "done"
  /\ Len(wire) = 2
  /\ wire[1].req.base = call.entry
  /\ wire[2].req.base # call.entry
  /\ wire[2].req.base \in Urls

ApiOps == { "api_get", "api_post", "api_post_data" }

\* The body of a failure response decodes as the error {Message, Code}.
IsIpfsError(reply) == reply.t = "failure" /\ ~reply.garbled /\ ~BodyBreaks(reply)

\* C15 as claimed: every get/post/post_data call that receives a
\* non-success response returns an error of kind Other whose description is
\* the server's Message; the requested codec decodes the body only on
\* success (Ignore then yields unit whatever the body is).
C15_NonSuccessIsRemoteError ==
  call.op \in ApiOps
  => LET reply == wire[1].reply
     IN /\ reply.t = "failure"
           => /\ call.result.tag = "Err"
              /\ call.result.error.kind = "Other"
              /\ IsIpfsError(reply) => call.result.error.msg = reply.message
        /\ (reply.t = "success" /\ call.codec = "Ignore") => call.result = OkUnit

\* C15 as amended: a non-success response whose body decodes as the error
\* {Message, Code} returns an error of kind Other whose description is the
\* Message; when that body does not decode the call returns the decode
\* error instead (InvalidData for a malformed body), never Other and never
\* success; the requested codec decodes the body only on success.
C15_RemoteErrorWhenBodyDecodes ==
  call.op \in ApiOps
  => LET reply == wire[1].reply
     IN /\ reply.t = "failure"
           => IF IsIpfsError(reply)
              THEN call.result = Fail(IoError("Other", reply.message))
              ELSE /\ call.result.tag = "Err"
                   /\ call.result.error.kind # "Other"
                   /\ reply.garbled => call.result.error.kind = "InvalidData"
        /\ (reply.t = "success" /\ call.codec = "Ignore") => call.result = OkUnit

\* A call through the Protobuf codec got a failure response with a Message
\* and returned it as an error of kind Other.
C15_Witness ==
  /\ call.op \in ApiOps
  /\ call.codec = "Protobuf"
  /\ IsIpfsError(wire[1].reply)
  /\ call.result = Fail(IoError("Other", wire[1].reply.message))

\* C16 as claimed: when the Json or the Protobuf codec decodes the body of
\* a success response, a body that does not decode gives InvalidData and an
\* I/O error raised while the body is read is returned with its own kind.
C16_DecodeErrorKinds ==
  (/\ call.op \in ApiOps
   /\ call.codec \in { "Json", "Protobuf" }
   /\ wire[1].reply.t = "success")
  => /\ wire[1].reply.garbled
        => call.result.tag = "Err" /\ call.result.error.kind = "InvalidData"
     /\ BodyBreaks(wire[1].reply)
        => call.result.tag = "Err" /\ call.result.error.kind = wire[1].reply.readerr

\* Some link of the draft has a hash with a character outside the base58
\* alphabet.
HasBadLinkHash(d) ==
  \E i \in 1..Len(d.links) :
    \E k \in 1..Len(d.links[i].object.hash) : ~IsB58Char(d.links[i].object.hash[k])

\* C17: commit of a draft with a link whose hash does not decode as base58
\* aborts: it returns neither a CommittedObject nor a CommitError, and no
\* object/put request (no request at all) has been sent.
C17_CommitAbortsOnBadLinkHash ==
  (call.op = "commit" /\ HasBadLinkHash(call.draft))
  => /\ call.result = Panic
     /\ wire = << >>

\* A draft whose second link has a hash that is no base58 was committed.
C17_Witness ==
  /\ call.op = "commit"
  /\ Len(call.draft.links) = MaxLinks
  /\ HasBadLinkHash(Object(<< >>, Tail(call.draft.links)))
  /\ call.result = Panic

\* C18: the top-level get first sends GET resolve with recursive=true and
\* the path it was given; when resolve returns a path it then sends GET
\* object/get with exactly that path as arg; when resolve fails it sends
\* nothing more and returns the error of resolve (for a failure response,
\* kind Other with the daemon's Message).
C18_GetResolvesThenFetches ==
  (call.op = "get" /\ Returned)
  => /\ Len(wire) >= 1
     /\ wire[1].req.verb = "GET"
     /\ wire[1].req.endpoint = "resolve"
     /\ wire[1].req.args.recursive = "true"
     /\ wire[1].req.args.arg = call.path
     /\ IF wire[1].reply.t = "success" /\ ~wire[1].reply.garbled
        THEN /\ Len(wire) = 2
             /\ wire[2].req.verb = "GET"
             /\ wire[2].req.endpoint = "object/get"
             /\ wire[2].req.args.arg = wire[1].reply.path
        ELSE /\ Len(wire) = 1
             /\ call.result.tag = "Err"
             /\ wire[1].reply.t = "failure"
                => call.result.error = IoError("Other", wire[1].reply.message)

\* A get of <hash>/l was resolved by the daemon to another path and fetched.
C18_Witness ==
  /\ call.op = "get"
  /\ Len(wire) = 2
  /\ Find(call.path, Slash) # 0
  /\ wire[2].req.args.arg # call.path
  /\ call.result.tag = "Ok"

\* The editors of a tree in the order a depth-first walk leaves them: the
\* editors under the links, link after link, then the editor itself.
RECURSIVE PostOrder(_)
RECURSIVE PostOrderOfLinks(_)
PostOrderOfLinks(links) ==
  IF links = << >> THEN << >>
  ELSE (IF links[1].object.kind = "ObjectEditor"
        THEN PostOrder(links[1].object.editor) ELSE << >>)
       \o PostOrderOfLinks(Tail(links))
PostOrder(e) == PostOrderOfLinks(e.links) \o << e >>

\* Number of puts of the commit of e before the subtree of its j-th link.
PutsBefore(e, j) == Len(PostOrderOfLinks(SubSeq(e.links, 1, j - 1)))

\* The link of e under which the n-th put of its commit lies, 0 when that
\* put is the one of e itself.
FailedLink(e, n) ==
  IF \E j \in 1..Len(e.links) : PutsBefore(e, j) < n /\ n <= PutsBefore(e, j + 1)
  THEN CHOOSE j \in 1..Len(e.links) : PutsBefore(e, j) < n /\ n <= PutsBefore(e, j + 1)
  ELSE 0

\* The cumulative size of what a link target stands for, modulo 2^64.
RECURSIVE TargetSize(_)
RECURSIVE TargetSizes(_)
TargetSizes(links) ==
  IF links = << >> THEN U64(0)
  ELSE AddWide(TargetSize(links[1].object), TargetSizes(Tail(links))).val
TargetSize(t) ==
  IF t.kind = "Link" THEN t.size
  ELSE IF t.kind = "Object" THEN t.obj.size
  ELSE AddWide(U64(Len(t.editor.data)), TargetSizes(t.editor.links)).val

\* got is what the commit of orig hands back when its n-th put failed, the
\* puts of orig being the exchanges off+1, off+2, ... of the call.
RECURSIVE RolledBack(_, _, _, _)
RolledBack(orig, got, n, off) ==
  LET j == FailedLink(orig, n)
      last == IF j = 0 THEN Len(orig.links) ELSE j - 1
  IN /\ got.data = orig.data
     /\ Len(got.links) = Len(orig.links)
     /\ \A i \in 1..Len(orig.links) : got.links[i].name = orig.links[i].name
     /\ \A i \in 1..last :
          /\ got.links[i].object.kind = "Link"
          /\ got.links[i].object.size = TargetSize(orig.links[i].object)
          /\ got.links[i].object.hash =
               (IF orig.links[i].object.kind = "Link" THEN orig.links[i].object.hash
                ELSE IF orig.links[i].object.kind = "Object"
                THEN orig.links[i].object.obj.hash
                ELSE wire[off + PutsBefore(orig, i + 1)].reply.hash)
     /\ j # 0
        => /\ got.links[j].object.kind = "ObjectEditor"
           /\ RolledBack(orig.links[j].object.editor, got.links[j].object.editor,
                         n - PutsBefore(orig, j), off + PutsBefore(orig, j))
           /\ \A i \in (j + 1)..Len(orig.links) : got.links[i] = orig.links[i]

\* C19: the recursive ObjectEditor::commit puts the editors of the tree in
\* depth-first order, the editors under the links of an editor, in link
\* order, before the editor itself.  When a put fails no further put is
\* sent, so never the parent's after a child's, and the CommitError's editor
\* keeps the data, the number of links and their names in order: the links
\* before the failed one are Links to the committed children, the failed
\* link carries the editor the child's commit handed back, the later links
\* are those of the original.
C19_ChildFailureRollsBack ==
  (call.op = "editor_commit" /\ call.result # Panic)
  => LET e == call.editor
         n == Len(wire)
     IN /\ n <= Len(PostOrder(e))
        /\ \A i \in 1..n :
             /\ wire[i].req.endpoint = "object/put"
             /\ wire[i].req.args.data.Data = PostOrder(e)[i].data
             /\ Len(wire[i].req.args.data.Links) = Len(PostOrder(e)[i].links)
             /\ \A k \in 1..Len(PostOrder(e)[i].links) :
                  wire[i].req.args.data.Links[k].Name = PostOrder(e)[i].links[k].name
        /\ call.result.tag = "Ok" => n = Len(PostOrder(e))
        /\ call.result.tag = "Err"
           => /\ wire[n].reply \in Faults
              /\ RolledBack(e, call.result.editor, n, 0)

\* The commit of an editor with two editors under its links failed under
\* the second one, at the first of that editor's two links.
C19_Witness ==
  /\ call.op = "editor_commit"
  /\ call.result.tag = "Err"
  /\ Len(call.editor.links) = 2
  /\ call.editor.links[1].object.kind = "ObjectEditor"
  /\ call.result.editor.links[1].object.kind = "Link"
  /\ call.result.editor.links[2].object.kind = "ObjectEditor"
  /\ Len(call.result.editor.links[2].object.editor.links) = 2
  /\ call.result.editor.links[2].object.editor.links[1].object.kind = "ObjectEditor"
  /\ call.result.editor.links[2].object.editor.links[2].object.kind = "ObjectEditor"
  /\ Len(wire) < Len(PostOrder(call.editor))
====
